---- MODULE Spec2Model ----
(***************************************************************************)
(* Model of the forward proxy in src/main.go: the dispatcher (run), the    *)
(* CONNECT tunnel (handleTunnel, transfer), the HTTP relay                 *)
(* (getHTTPHandler, copyHeader) and the header filter pipeline             *)
(* (filterResponse, withoutHeaders).  One request is followed from the     *)
(* dispatcher to the end of its handler and of the goroutines it starts.   *)
(***************************************************************************)
EXTENDS Integers, Sequences, FiniteSets, TLC

(* ------------------------------ bounds -------------------------------- *)

\* longest value sequence a header key of the destination's response has
MaxVals == 2
\* longest response body of the destination
MaxBody == 2
\* most bytes each peer of a tunnel writes
MaxBytes == 2

(* --------------------------- program constants ------------------------ *)

StatusOK == 200
StatusInternalServerError == 500
StatusServiceUnavailable == 503
MethodConnect == "CONNECT"

(* ------------------------------ header keys --------------------------- *)
\* A header key is a sequence of characters, so that canonicalisation is
\* computed character by character as net/textproto does.

LowerOf == [c \in {"C", "X", "A"} |-> CASE c = "C" -> "c" [] c = "X" -> "x" [] c = "A" -> "a"]
UpperOf == [c \in {"c", "x", "a", "o", "k", "i", "e"} |->
              CASE c = "c" -> "C" [] c = "x" -> "X" [] c = "a" -> "A" [] c = "o" -> "O"
                [] c = "k" -> "K" [] c = "i" -> "I" [] c = "e" -> "E"]

ToUpper(c) == IF c \in DOMAIN UpperOf THEN UpperOf[c] ELSE c
ToLower(c) == IF c \in DOMAIN LowerOf THEN LowerOf[c] ELSE c

\* http.CanonicalHeaderKey: first letter and every letter after a hyphen in
\* upper case, every other letter in lower case.
CanonicalHeaderKey(k) ==
    [i \in 1..Len(k) |-> IF i = 1 \/ k[i - 1] = "-" THEN ToUpper(k[i]) ELSE ToLower(k[i])]

KeyCookie == <<"C", "o", "o", "k", "i", "e">>
KeyXA == <<"X", "-", "A">>
KeyXaLower == <<"x", "-", "a">>

\* keys as the HTTP transport delivers them (it canonicalises what it reads)
CanonicalKeys == {KeyCookie, KeyXA}
\* keys a caller of filterResponse can pass in a hand-built http.Response
AllKeys == CanonicalKeys \cup {KeyXaLower}

Vals == {"a", "b"}
SeqsUpTo(S, n) == UNION {[1..m -> S] : m \in 1..n}
HeaderMaps(keys, n) == UNION {[D -> SeqsUpTo(Vals, n)] : D \in SUBSET keys}

EmptyHeader == [k \in {} |-> <<>>]

\* http.Header.Add: append the value under the canonical form of the key
HeaderAdd(h, key, v) ==
    LET ck == CanonicalHeaderKey(key)
    IN  IF ck \in DOMAIN h THEN [h EXCEPT ![ck] = Append(@, v)]
        ELSE h @@ (ck :> <<v>>)

RECURSIVE HeaderAddAll(_, _, _)
\* the inner loop of copyHeader: add every value of one key, in order
HeaderAddAll(h, key, vs) ==
    IF vs = <<>> THEN h ELSE HeaderAddAll(HeaderAdd(h, key, Head(vs)), key, Tail(vs))

(* ------------------------------ type set ------------------------------ *)

newSet == {}
has(s, val) == val \in s
insert(s, val) == IF has(s, val) THEN s ELSE s \cup {val}
\* the set filterResponse builds on every call
unwantedHeaders == insert(newSet, KeyCookie)

(* ------------------------------- state -------------------------------- *)

VARIABLES
    process,        \* "running", or "crashed" once a goroutine panicked or the runtime threw
    method,         \* r.Method of the request
    logged,         \* number of "Connection:" lines the server's handler has logged
    handler,        \* the component the server's handler called, "none" before the branch
    pc,             \* position of the request's handler goroutine
    status,         \* status line the client is sent (0: none yet); the first WriteHeader wins
    wHeader,        \* w.Header(), the ResponseWriter's own header map
    sentHeader,     \* the header map sent with the status line
    clientBody,     \* what was written to the client through the ResponseWriter
    flushed,        \* the status line has left the proxy (the client can see it)
    dials,          \* calls of net.DialTimeout
    roundTrips,     \* calls of http.DefaultTransport.RoundTrip
    respStatus,     \* res.StatusCode
    hdr0,           \* res.Header as the destination sent it
    body0,          \* what the destination has sent on res.Body and io.Copy has read
    hdr,            \* the map res.Header refers to (filteredRes.Header is the same map)
    writing,        \* a map assignment on hdr is in progress (the runtime's hashWriting flag)
    calls,          \* calls of filterResponse so far
    result1,        \* hdr when the first call's pipeline had drained (harness of SpecFilter)
    prod,           \* goroutine of lines 168-173: [pc, visited, init, entry]
    filt,           \* goroutine of withoutHeaders: [pc, entry]
    cons,           \* goroutine of lines 175-181: [pc, entry, idx]
    headerChClosed, \* close(headerCh) happened
    outClosed,      \* close(out) happened
    chVisited,      \* keys copyHeader's range has produced
    chInit,         \* keys of the map when copyHeader's range began
    hijacked,       \* the HTTP server gave up the client connection
    clientConn,     \* "none", "nil", "open", "closed"
    destConn,       \* "none", "open", "closed"
    tpc,            \* position of each transfer goroutine
    tbuf,           \* bytes each transfer has read and not yet written
    pending,        \* bytes on the wire towards the proxy, per direction
    peerEOF,        \* the peer of the direction's source has shut its side
    sent,           \* all bytes the peer of each direction wrote
    delivered,      \* bytes written to the direction's destination
    lost            \* client bytes left in the bufio.Reader that Hijack returned

reqVars == <<process, method, logged, handler, logged, handler, pc>>
clientVars == <<status, wHeader, sentHeader, clientBody, flushed>>
respVars == <<respStatus, hdr0, body0, roundTrips>>
mapVars == <<hdr, writing>>
pipeVars == <<prod, filt, cons, headerChClosed, outClosed, calls, result1>>
copyVars == <<chVisited, chInit>>
connVars == <<hijacked, clientConn, destConn, dials>>
xferVars == <<tpc, tbuf, pending, peerEOF, sent, delivered, lost>>

vars == <<reqVars, clientVars, respVars, mapVars, pipeVars, copyVars, connVars, xferVars>>

Dirs == {"c2d", "d2c"}
Bytes == {"p", "q"}
NoEntry == [key |-> <<>>, values |-> <<>>]
Running == process = "running"

(* --------------------- filterResponse and its goroutines --------------- *)

\* Lines 161-182 of filterResponse: filteredRes := response copies the struct,
\* so filteredRes.Header is the map response.Header; the three goroutines are
\* started and the function returns without waiting for any of them.
StartPipeline ==
    /\ prod' = [pc |-> "start", visited |-> {}, init |-> {}, entry |-> NoEntry]
    /\ filt' = [pc |-> "recv", entry |-> NoEntry]
    /\ cons' = [pc |-> "recv", entry |-> NoEntry, idx |-> 1]
    /\ headerChClosed' = FALSE
    /\ outClosed' = FALSE
    /\ calls' = calls + 1

PipelineDone == prod.pc = "done" /\ filt.pc = "done" /\ cons.pc = "done"

\* line 170: the range over response.Header begins
ProducerBegin ==
    /\ Running /\ prod.pc = "start"
    /\ prod' = [prod EXCEPT !.pc = "iter", !.init = DOMAIN hdr]
    /\ UNCHANGED <<reqVars, clientVars, respVars, mapVars, filt, cons, headerChClosed,
                   outClosed, calls, result1, copyVars, connVars, xferVars>>

\* lines 170-171: the range produces one entry not produced before; the entry
\* carries the canonical key and the value slice as the map holds it now
ProducerNext ==
    /\ Running /\ prod.pc = "iter"
    /\ \E k \in DOMAIN hdr \ prod.visited :
          prod' = [prod EXCEPT !.pc = "send", !.visited = @ \cup {k},
                               !.entry = [key |-> CanonicalHeaderKey(k), values |-> hdr[k]]]
    /\ UNCHANGED <<reqVars, clientVars, respVars, mapVars, filt, cons, headerChClosed,
                   outClosed, calls, result1, copyVars, connVars, xferVars>>

\* lines 169-173: the range ends (an entry created during the iteration may be
\* skipped, every entry present at its start was produced) and the deferred
\* close(headerCh) runs
ProducerEnd ==
    /\ Running /\ prod.pc = "iter"
    /\ prod.init \subseteq prod.visited
    /\ prod' = [prod EXCEPT !.pc = "done"]
    /\ headerChClosed' = TRUE
    /\ UNCHANGED <<reqVars, clientVars, respVars, mapVars, filt, cons, outClosed, calls,
                   result1, copyVars, connVars, xferVars>>

\* line 171 with lines 149-150: headerCh is unbuffered, the send and the
\* receive happen together; an entry whose key is in the unwanted set is dropped
HeaderChSend ==
    /\ Running /\ prod.pc = "send" /\ filt.pc = "recv"
    /\ filt' = IF ~has(unwantedHeaders, prod.entry.key)
               THEN [pc |-> "send", entry |-> prod.entry]
               ELSE [pc |-> "recv", entry |-> NoEntry]
    /\ prod' = [prod EXCEPT !.pc = "iter", !.entry = NoEntry]
    /\ UNCHANGED <<reqVars, clientVars, respVars, mapVars, cons, headerChClosed, outClosed,
                   calls, result1, copyVars, connVars, xferVars>>

\* line 151 with lines 176-177: out is unbuffered; the consumer starts on the
\* values of the entry it received
OutSend ==
    /\ Running /\ filt.pc = "send" /\ cons.pc = "recv"
    /\ cons' = IF filt.entry.values = <<>>
               THEN [pc |-> "recv", entry |-> NoEntry, idx |-> 1]
               ELSE [pc |-> "add", entry |-> filt.entry, idx |-> 1]
    /\ filt' = [pc |-> "recv", entry |-> NoEntry]
    /\ UNCHANGED <<reqVars, clientVars, respVars, mapVars, prod, headerChClosed, outClosed,
                   calls, result1, copyVars, connVars, xferVars>>

\* lines 148-149: the range over the closed headerCh ends, close(out) runs
FilterClose ==
    /\ Running /\ filt.pc = "recv" /\ headerChClosed
    /\ filt' = [filt EXCEPT !.pc = "done"]
    /\ outClosed' = TRUE
    /\ UNCHANGED <<reqVars, clientVars, respVars, mapVars, prod, cons, headerChClosed,
                   calls, result1, copyVars, connVars, xferVars>>

\* line 178, first half: Header.Add enters the map assignment
ConsumerAddBegin ==
    /\ Running /\ cons.pc = "add" /\ ~writing
    /\ writing' = TRUE
    /\ UNCHANGED <<reqVars, clientVars, respVars, hdr, pipeVars, copyVars, connVars, xferVars>>

\* line 178, second half: the value is appended in filteredRes.Header; after
\* the last value of the entry the consumer receives again (lines 176-177)
ConsumerAddEnd ==
    /\ Running /\ cons.pc = "add" /\ writing
    /\ hdr' = HeaderAdd(hdr, cons.entry.key, cons.entry.values[cons.idx])
    /\ writing' = FALSE
    /\ cons' = IF cons.idx < Len(cons.entry.values)
               THEN [cons EXCEPT !.idx = @ + 1]
               ELSE [pc |-> "recv", entry |-> NoEntry, idx |-> 1]
    /\ UNCHANGED <<reqVars, clientVars, respVars, prod, filt, headerChClosed, outClosed,
                   calls, result1, copyVars, connVars, xferVars>>

\* line 176: the range over the closed out channel ends
ConsumerEnd ==
    /\ Running /\ cons.pc = "recv" /\ outClosed
    /\ cons' = [cons EXCEPT !.pc = "done"]
    /\ UNCHANGED <<reqVars, clientVars, respVars, mapVars, prod, filt, headerChClosed,
                   outClosed, calls, result1, copyVars, connVars, xferVars>>

\* some goroutine is about to take a step of a range over the map
MapIterating ==
    \/ prod.pc \in {"start", "iter"}
    \/ pc \in {"h_dump2", "h_copyHeader"}

\* Lines 170, 107 and 186 against line 178: the ranges and the assignment are
\* not ordered by any synchronisation.  An iteration step that meets the
\* assignment in progress is a data race; one outcome the Go runtime produces is
\* "fatal error: concurrent map iteration and map write", which ends the
\* process.  The other outcome, the step reading the map, is the step's action.
FatalMapRace ==
    /\ Running /\ writing /\ MapIterating
    /\ process' = "crashed"
    /\ UNCHANGED <<method, logged, handler, pc, clientVars, respVars, mapVars, pipeVars, copyVars, connVars,
                   xferVars>>

(* ------------------------- the ResponseWriter -------------------------- *)

KeyContentType == <<"C", "o", "n", "t", "e", "n", "t", "-", "T", "y", "p", "e">>
KeyNoSniff == <<"X", "-", "C", "o", "n", "t", "e", "n", "t", "-", "T", "y", "p", "e", "-",
                "O", "p", "t", "i", "o", "n", "s">>
\* the texts the handlers pass to http.Error: err.Error() of the failed call,
\* or the literal of line 62
ErrDumpRequest == "DumpRequest: error"
ErrDial == "DialTimeout: error"
ErrNoHijacker == "Tunneling (hijacking) not supported"
ErrHijack == "Hijack: error"
ErrRoundTrip == "RoundTrip: error"
ErrDumpResponse == "DumpResponse: error"

\* http.Header.Set
HeaderSet(h, key, v) ==
    LET ck == CanonicalHeaderKey(key)
    IN  [k \in DOMAIN h \cup {ck} |-> IF k = ck THEN <<v>> ELSE h[k]]

\* http.Error(w, text, code) as lines 47, 54, 62, 67, 88, 94, 100 and 109 call
\* it: it sets the plain-text headers, calls WriteHeader(code), which is ignored
\* when a status was written before, and writes the text, which fails on a
\* connection the server no longer owns.
HttpError(text, code) ==
    /\ wHeader' = HeaderSet(HeaderSet(wHeader, KeyContentType, "text/plain; charset=utf-8"),
                            KeyNoSniff, "nosniff")
    /\ status' = IF status = 0 THEN code ELSE status
    /\ sentHeader' = IF status = 0 THEN wHeader' ELSE sentHeader
    /\ clientBody' = IF hijacked THEN clientBody ELSE Append(clientBody, text)

(* ------------------------------ dispatcher ---------------------------- *)

\* lines 210-212: the server's handler logs the client and the target, and the
\* request
LogConnection ==
    /\ Running /\ pc = "accept"
    /\ logged' = logged + 1
    /\ pc' = "dispatch"
    /\ UNCHANGED <<process, method, handler, clientVars, respVars, mapVars, pipeVars, copyVars,
                   connVars, xferVars>>

\* Dispatch with the two branches exchanged
Dispatch_Swapped ==
    /\ Running /\ pc = "dispatch"
    /\ IF method = MethodConnect
       THEN handler' = "handleHTTP" /\ pc' = "h_dump"
       ELSE handler' = "handleTunnel" /\ pc' = "t_dump"
    /\ UNCHANGED <<process, method, logged, clientVars, respVars, mapVars, pipeVars, copyVars,
                   connVars, xferVars>>

\* lines 214-219: the branch on the method alone
Dispatch ==
    /\ Running /\ pc = "dispatch"
    /\ IF method = MethodConnect
       THEN handler' = "handleTunnel" /\ pc' = "t_dump"
       ELSE handler' = "handleHTTP" /\ pc' = "h_dump"
    /\ UNCHANGED <<process, method, logged, clientVars, respVars, mapVars, pipeVars, copyVars,
                   connVars, xferVars>>

(* ------------------------------- HTTP relay --------------------------- *)

Statuses == {200, 404}

\* lines 85-91: dump of the request; a failure answers 500 and returns
RelayDumpRequest ==
    /\ Running /\ pc = "h_dump"
    /\ \E ok \in BOOLEAN :
          IF ok THEN pc' = "h_roundtrip" /\ UNCHANGED clientVars
          ELSE pc' = "done" /\ HttpError(ErrDumpRequest, StatusInternalServerError) /\ flushed' = TRUE
    /\ UNCHANGED <<process, method, logged, handler, respVars, mapVars, pipeVars, copyVars, connVars, xferVars>>

\* RelayRoundTrip with one retry: the first failure makes the handler call
\* RoundTrip again
RelayRoundTrip_Retry ==
    /\ Running /\ pc = "h_roundtrip"
    /\ roundTrips' = roundTrips + 1
    /\ \/ /\ IF roundTrips = 0
             THEN pc' = "h_roundtrip" /\ UNCHANGED clientVars
             ELSE pc' = "done" /\ HttpError(ErrRoundTrip, StatusServiceUnavailable)
                  /\ flushed' = TRUE
          /\ UNCHANGED <<respStatus, hdr0, hdr>>
       \/ /\ \E st \in Statuses, h \in HeaderMaps(CanonicalKeys, MaxVals) :
                /\ respStatus' = st /\ hdr0' = h /\ hdr' = h
          /\ pc' = "h_dump1"
          /\ UNCHANGED clientVars
    /\ UNCHANGED <<process, method, logged, handler, body0, writing, pipeVars, copyVars, connVars, xferVars>>

\* lines 92-96: one round trip; a failure answers 503 and returns.  It returns
\* with the status and the headers read (the transport canonicalises the keys),
\* the body is a stream read later.
RelayRoundTrip ==
    /\ Running /\ pc = "h_roundtrip"
    /\ roundTrips' = roundTrips + 1
    /\ \/ /\ pc' = "done" /\ HttpError(ErrRoundTrip, StatusServiceUnavailable) /\ flushed' = TRUE
          /\ UNCHANGED <<respStatus, hdr0, hdr>>
       \/ /\ \E st \in Statuses, h \in HeaderMaps(CanonicalKeys, MaxVals) :
                /\ respStatus' = st /\ hdr0' = h /\ hdr' = h
          /\ pc' = "h_dump1"
          /\ UNCHANGED clientVars
    /\ UNCHANGED <<process, method, logged, handler, body0, writing, pipeVars, copyVars, connVars, xferVars>>

\* lines 98-104: dump of the raw response; a failure answers 500 and returns
RelayDumpResponse ==
    /\ Running /\ pc = "h_dump1"
    /\ \E ok \in BOOLEAN :
          IF ok THEN pc' = "h_filter" /\ UNCHANGED clientVars
          ELSE pc' = "done" /\ HttpError(ErrDumpResponse, StatusInternalServerError) /\ flushed' = TRUE
    /\ UNCHANGED <<process, method, logged, handler, respVars, mapVars, pipeVars, copyVars, connVars, xferVars>>

\* line 106: finalRes := filterResponse(*res)
RelayFilterResponse ==
    /\ Running /\ pc = "h_filter"
    /\ StartPipeline
    /\ pc' = "h_dump2"
    /\ UNCHANGED <<process, method, logged, handler, clientVars, respVars, mapVars, result1, copyVars,
                   connVars, xferVars>>

\* lines 107-112: dump of finalRes, which ranges over finalRes.Header; a failure
\* answers 500 and returns; otherwise the range of copyHeader (line 186) begins
RelayDumpFinal ==
    /\ Running /\ pc = "h_dump2"
    /\ \E ok \in BOOLEAN :
          IF ok THEN /\ pc' = "h_copyHeader"
                     /\ chVisited' = {} /\ chInit' = DOMAIN hdr
                     /\ UNCHANGED clientVars
          ELSE /\ pc' = "done" /\ HttpError(ErrDumpResponse, StatusInternalServerError) /\ flushed' = TRUE
               /\ UNCHANGED copyVars
    /\ UNCHANGED <<process, method, logged, handler, respVars, mapVars, pipeVars, connVars, xferVars>>

\* lines 186-190: one entry of finalRes.Header, all its values added to w.Header()
CopyHeaderNext ==
    /\ Running /\ pc = "h_copyHeader"
    /\ \E k \in DOMAIN hdr \ chVisited :
          /\ wHeader' = HeaderAddAll(wHeader, k, hdr[k])
          /\ chVisited' = chVisited \cup {k}
    /\ UNCHANGED <<reqVars, status, sentHeader, clientBody, flushed, respVars, mapVars,
                   pipeVars, chInit, connVars, xferVars>>

\* line 186: the range of copyHeader ends
CopyHeaderEnd ==
    /\ Running /\ pc = "h_copyHeader"
    /\ chInit \subseteq chVisited
    /\ pc' = "h_writeHeader"
    /\ UNCHANGED <<process, method, logged, handler, clientVars, respVars, mapVars, pipeVars, copyVars,
                   connVars, xferVars>>

\* line 114: the status line goes out with the headers w.Header() holds now
RelayWriteHeader ==
    /\ Running /\ pc = "h_writeHeader"
    /\ status' = IF status = 0 THEN respStatus ELSE status
    /\ sentHeader' = IF status = 0 THEN wHeader ELSE sentHeader
    /\ pc' = "h_body"
    /\ UNCHANGED <<process, method, logged, handler, wHeader, clientBody, flushed, respVars, mapVars,
                   pipeVars, copyVars, connVars, xferVars>>

\* line 115: io.Copy(w, finalRes.Body) reads the next byte the destination
\* sends on the body stream and writes it to the client
RelayCopyBody ==
    /\ Running /\ pc = "h_body" /\ Len(body0) < MaxBody
    /\ \E b \in Bytes :
          /\ body0' = Append(body0, b)
          /\ clientBody' = Append(clientBody, b)
    /\ flushed' = TRUE
    /\ UNCHANGED <<reqVars, status, wHeader, sentHeader, respStatus, hdr0, roundTrips,
                   mapVars, pipeVars, copyVars, connVars, xferVars>>

\* lines 115-116: the body stream ends, io.Copy and the handler return
RelayReturn ==
    /\ Running /\ pc = "h_body"
    /\ pc' = "done"
    /\ flushed' = TRUE
    /\ UNCHANGED <<process, method, logged, handler, status, wHeader, sentHeader, clientBody, respVars,
                   mapVars, pipeVars, copyVars, connVars, xferVars>>

(* -------------------------------- tunnel ------------------------------ *)

\* TunnelDumpRequest with the return of line 48 missing: after the 500 the
\* handler goes on to the dial
TunnelDumpRequest_NoReturn ==
    /\ Running /\ pc = "t_dump"
    /\ pc' = "t_dial"
    /\ \E ok \in BOOLEAN :
          IF ok THEN UNCHANGED clientVars
          ELSE HttpError(ErrDumpRequest, StatusInternalServerError) /\ flushed' = TRUE
    /\ UNCHANGED <<process, method, logged, handler, respVars, mapVars, pipeVars, copyVars, connVars, xferVars>>

\* lines 44-50: dump of the request; a failure answers 500 and returns
TunnelDumpRequest ==
    /\ Running /\ pc = "t_dump"
    /\ \E ok \in BOOLEAN :
          IF ok THEN pc' = "t_dial" /\ UNCHANGED clientVars
          ELSE pc' = "done" /\ HttpError(ErrDumpRequest, StatusInternalServerError) /\ flushed' = TRUE
    /\ UNCHANGED <<process, method, logged, handler, respVars, mapVars, pipeVars, copyVars, connVars, xferVars>>

\* TunnelDial with the return of line 55 missing: after the 503 the handler
\* goes on to line 57
TunnelDial_NoReturn ==
    /\ Running /\ pc = "t_dial"
    /\ dials' = dials + 1
    /\ pc' = "t_writeHeader"
    /\ \E ok \in BOOLEAN :
          IF ok THEN destConn' = "open" /\ UNCHANGED clientVars
          ELSE HttpError(ErrDial, StatusServiceUnavailable) /\ flushed' = TRUE /\ UNCHANGED destConn
    /\ UNCHANGED <<process, method, logged, handler, respVars, mapVars, pipeVars, copyVars, hijacked,
                   clientConn, xferVars>>

\* lines 52-56: net.DialTimeout; a failure answers 503 and returns
TunnelDial ==
    /\ Running /\ pc = "t_dial"
    /\ dials' = dials + 1
    /\ \E ok \in BOOLEAN :
          IF ok THEN pc' = "t_writeHeader" /\ destConn' = "open" /\ UNCHANGED clientVars
          ELSE /\ pc' = "done" /\ HttpError(ErrDial, StatusServiceUnavailable) /\ flushed' = TRUE
               /\ UNCHANGED destConn
    /\ UNCHANGED <<process, method, logged, handler, respVars, mapVars, pipeVars, copyVars, hijacked,
                   clientConn, xferVars>>

\* line 57: w.WriteHeader(http.StatusOK)
TunnelWriteHeader ==
    /\ Running /\ pc = "t_writeHeader"
    /\ status' = IF status = 0 THEN StatusOK ELSE status
    /\ sentHeader' = IF status = 0 THEN wHeader ELSE sentHeader
    /\ pc' = "t_hijacker"
    /\ UNCHANGED <<process, method, logged, handler, wHeader, clientBody, flushed, respVars, mapVars,
                   pipeVars, copyVars, connVars, xferVars>>

\* lines 60-64: w.(http.Hijacker); without it, http.Error with 500 and return
TunnelHijacker ==
    /\ Running /\ pc = "t_hijacker"
    /\ \E ok \in BOOLEAN :
          IF ok THEN pc' = "t_flush" /\ UNCHANGED clientVars
          ELSE pc' = "done" /\ HttpError(ErrNoHijacker, StatusInternalServerError) /\ flushed' = TRUE
    /\ UNCHANGED <<process, method, logged, handler, respVars, mapVars, pipeVars, copyVars, connVars, xferVars>>

\* line 65, first half: Hijack flushes the status line written before
TunnelHijackFlush ==
    /\ Running /\ pc = "t_flush"
    /\ flushed' = TRUE
    /\ pc' = "t_hijack"
    /\ UNCHANGED <<process, method, logged, handler, status, wHeader, sentHeader, clientBody, respVars,
                   mapVars, pipeVars, copyVars, connVars, xferVars>>

\* line 65, second half: the server hands over the connection, or fails and
\* returns a nil connection.  The buffered reader it returns is discarded
\* (the blank identifier); it holds the byte, if any, that the server's
\* background read on the connection had taken from the client by then.
TunnelHijack ==
    /\ Running /\ pc = "t_hijack"
    /\ hijacked' = TRUE
    /\ \/ /\ clientConn' = "open"
          /\ pc' = "t_go1"
          /\ \E n \in {m \in 0..1 : m <= Len(pending["c2d"])} :
                /\ lost' = SubSeq(pending["c2d"], 1, n)
                /\ pending' = [pending EXCEPT !["c2d"] = SubSeq(@, n + 1, Len(@))]
       \/ /\ clientConn' = "nil"
          /\ pc' = "t_hijackErr"
          /\ UNCHANGED <<pending, lost>>
    /\ UNCHANGED <<process, method, logged, handler, clientVars, respVars, mapVars, pipeVars, copyVars,
                   destConn, dials, tpc, tbuf, peerEOF, sent, delivered>>

\* lines 66-68: http.Error with 503, and no return
TunnelHijackError ==
    /\ Running /\ pc = "t_hijackErr"
    /\ HttpError(ErrHijack, StatusServiceUnavailable)
    /\ pc' = "t_go1"
    /\ UNCHANGED <<process, method, logged, handler, flushed, respVars, mapVars, pipeVars, copyVars,
                   connVars, xferVars>>

\* line 71: go transfer(clientConn, destConn)
TunnelGoClientToDest ==
    /\ Running /\ pc = "t_go1"
    /\ tpc' = [tpc EXCEPT !["c2d"] = "start"]
    /\ pc' = "t_go2"
    /\ UNCHANGED <<process, method, logged, handler, clientVars, respVars, mapVars, pipeVars, copyVars,
                   connVars, tbuf, pending, peerEOF, sent, delivered, lost>>

\* lines 72-73: go transfer(destConn, clientConn), and the handler returns
TunnelGoDestToClient ==
    /\ Running /\ pc = "t_go2"
    /\ tpc' = [tpc EXCEPT !["d2c"] = "start"]
    /\ pc' = "done"
    /\ UNCHANGED <<process, method, logged, handler, clientVars, respVars, mapVars, pipeVars, copyVars,
                   connVars, tbuf, pending, peerEOF, sent, delivered, lost>>

(* ------------------------------- transfer ----------------------------- *)

\* the arguments of the two calls of transfer (lines 71 and 72)
From(t) == IF t = "c2d" THEN clientConn ELSE destConn
To(t) == IF t = "c2d" THEN destConn ELSE clientConn

\* Close on the connection that is the source (TRUE) or the destination of t
CloseConn(t, source) ==
    IF (t = "c2d") = source
    THEN clientConn' = "closed" /\ UNCHANGED destConn
    ELSE destConn' = "closed" /\ UNCHANGED clientConn

\* lines 76-77: the two defer statements.  A nil connection makes the method
\* value panic; the panic runs the deferred calls registered so far and, not
\* being recovered in this goroutine, ends the process.
TransferBegin(t) ==
    /\ Running /\ tpc[t] = "start"
    /\ IF To(t) = "nil"
       THEN process' = "crashed" /\ UNCHANGED <<tpc, clientConn, destConn>>
       ELSE IF From(t) = "nil"
            THEN process' = "crashed" /\ CloseConn(t, FALSE) /\ UNCHANGED tpc
            ELSE /\ tpc' = [tpc EXCEPT ![t] = "read"]
                 /\ UNCHANGED <<process, clientConn, destConn>>
    /\ UNCHANGED <<method, logged, handler, pc, clientVars, respVars, mapVars, pipeVars, copyVars, hijacked,
                   dials, tbuf, pending, peerEOF, sent, delivered, lost>>

\* line 79, io.Copy reading: a byte, or end-of-stream, or the error of a
\* connection closed on this side; blocked while the peer is silent
TransferRead(t) ==
    /\ Running /\ tpc[t] = "read"
    /\ From(t) = "closed" \/ pending[t] # <<>> \/ peerEOF[t]
    /\ IF From(t) # "closed" /\ pending[t] # <<>>
       THEN /\ tbuf' = [tbuf EXCEPT ![t] = <<Head(pending[t])>>]
            /\ pending' = [pending EXCEPT ![t] = Tail(@)]
            /\ tpc' = [tpc EXCEPT ![t] = "write"]
       ELSE /\ tpc' = [tpc EXCEPT ![t] = "closeFrom"]
            /\ UNCHANGED <<tbuf, pending>>
    /\ UNCHANGED <<reqVars, clientVars, respVars, mapVars, pipeVars, copyVars, connVars,
                   peerEOF, sent, delivered, lost>>

\* line 79, io.Copy writing what it read; a write on a connection closed on
\* this side fails and ends the copy
TransferWrite(t) ==
    /\ Running /\ tpc[t] = "write"
    /\ IF To(t) = "closed"
       THEN /\ tpc' = [tpc EXCEPT ![t] = "closeFrom"]
            /\ UNCHANGED delivered
       ELSE /\ delivered' = [delivered EXCEPT ![t] = @ \o tbuf[t]]
            /\ tpc' = [tpc EXCEPT ![t] = "read"]
    /\ tbuf' = [tbuf EXCEPT ![t] = <<>>]
    /\ UNCHANGED <<reqVars, clientVars, respVars, mapVars, pipeVars, copyVars, connVars,
                   pending, peerEOF, sent, lost>>

\* line 77: the deferred from.Close() runs first
TransferCloseFrom(t) ==
    /\ Running /\ tpc[t] = "closeFrom"
    /\ CloseConn(t, TRUE)
    /\ tpc' = [tpc EXCEPT ![t] = "closeTo"]
    /\ UNCHANGED <<reqVars, clientVars, respVars, mapVars, pipeVars, copyVars, hijacked,
                   dials, tbuf, pending, peerEOF, sent, delivered, lost>>

\* TransferCloseTo with the defer of line 76 missing: the destination of the
\* direction stays open
TransferCloseTo_NoClose(t) ==
    /\ Running /\ tpc[t] = "closeTo"
    /\ tpc' = [tpc EXCEPT ![t] = "done"]
    /\ UNCHANGED <<reqVars, clientVars, respVars, mapVars, pipeVars, copyVars, connVars,
                   tbuf, pending, peerEOF, sent, delivered, lost>>

\* line 76: the deferred to.Close() runs last
TransferCloseTo(t) ==
    /\ Running /\ tpc[t] = "closeTo"
    /\ CloseConn(t, FALSE)
    /\ tpc' = [tpc EXCEPT ![t] = "done"]
    /\ UNCHANGED <<reqVars, clientVars, respVars, mapVars, pipeVars, copyVars, hijacked,
                   dials, tbuf, pending, peerEOF, sent, delivered, lost>>

(* ---------------------- the two peers of a tunnel --------------------- *)

\* the peer that writes into direction t has a connection to write on: the
\* client once it was sent the 200 of its CONNECT, the destination once dialled
PeerConnected(t) ==
    IF t = "c2d"
    THEN method = MethodConnect /\ flushed /\ status = StatusOK /\ clientConn # "closed"
    ELSE destConn = "open"

PeerWrite(t) ==
    /\ Running /\ PeerConnected(t) /\ ~peerEOF[t] /\ Len(sent[t]) < MaxBytes
    /\ \E b \in Bytes :
          /\ sent' = [sent EXCEPT ![t] = Append(@, b)]
          /\ pending' = [pending EXCEPT ![t] = Append(@, b)]
    /\ UNCHANGED <<reqVars, clientVars, respVars, mapVars, pipeVars, copyVars, connVars,
                   tpc, tbuf, peerEOF, delivered, lost>>

PeerClose(t) ==
    /\ Running /\ PeerConnected(t) /\ ~peerEOF[t]
    /\ peerEOF' = [peerEOF EXCEPT ![t] = TRUE]
    /\ UNCHANGED <<reqVars, clientVars, respVars, mapVars, pipeVars, copyVars, connVars,
                   tpc, tbuf, pending, sent, delivered, lost>>

(* -------------------------- the specifications ------------------------ *)

IdlePipeline ==
    /\ prod = [pc |-> "idle", visited |-> {}, init |-> {}, entry |-> NoEntry]
    /\ filt = [pc |-> "idle", entry |-> NoEntry]
    /\ cons = [pc |-> "idle", entry |-> NoEntry, idx |-> 1]
    /\ headerChClosed = FALSE /\ outClosed = FALSE
    /\ calls = 0 /\ result1 = EmptyHeader
    /\ writing = FALSE

NoTunnel ==
    /\ hijacked = FALSE /\ clientConn = "none" /\ destConn = "none" /\ dials = 0
    /\ tpc = [t \in Dirs |-> "none"]
    /\ tbuf = [t \in Dirs |-> <<>>]
    /\ pending = [t \in Dirs |-> <<>>]
    /\ peerEOF = [t \in Dirs |-> FALSE]
    /\ sent = [t \in Dirs |-> <<>>]
    /\ delivered = [t \in Dirs |-> <<>>]
    /\ lost = <<>>

NoResponse ==
    /\ status = 0 /\ wHeader = EmptyHeader /\ sentHeader = EmptyHeader
    /\ clientBody = <<>> /\ flushed = FALSE
    /\ respStatus = 0 /\ body0 = <<>> /\ roundTrips = 0
    /\ chVisited = {} /\ chInit = {}

\* one request arrives at the server's handler (line 210)
Init ==
    /\ process = "running"
    /\ method \in {MethodConnect, "GET"}
    /\ logged = 0 /\ handler = "none"
    /\ pc = "accept"
    /\ hdr = EmptyHeader /\ hdr0 = EmptyHeader
    /\ NoResponse /\ IdlePipeline /\ NoTunnel

Pipeline ==
    \/ ProducerBegin \/ ProducerNext \/ ProducerEnd \/ HeaderChSend
    \/ OutSend \/ FilterClose
    \/ ConsumerAddBegin \/ ConsumerAddEnd \/ ConsumerEnd
    \/ FatalMapRace

Relay ==
    \/ RelayDumpRequest \/ RelayRoundTrip \/ RelayDumpResponse \/ RelayFilterResponse
    \/ RelayDumpFinal \/ CopyHeaderNext \/ CopyHeaderEnd \/ RelayWriteHeader
    \/ RelayCopyBody \/ RelayReturn

Tunnel ==
    \/ TunnelDumpRequest \/ TunnelDial \/ TunnelWriteHeader \/ TunnelHijacker
    \/ TunnelHijackFlush \/ TunnelHijack \/ TunnelHijackError
    \/ TunnelGoClientToDest \/ TunnelGoDestToClient

Transfers ==
    \E t \in Dirs :
        \/ TransferBegin(t) \/ TransferRead(t) \/ TransferWrite(t)
        \/ TransferCloseFrom(t) \/ TransferCloseTo(t)

Peers == \E t \in Dirs : PeerWrite(t) \/ PeerClose(t)

Next == LogConnection \/ Dispatch \/ Relay \/ Pipeline \/ Tunnel \/ Transfers \/ Peers

Spec == Init /\ [][Next]_vars

\* filterResponse called on a hand-built response, and once more on what it
\* returned after the goroutines of the first call have finished
FilterCall ==
    /\ Running /\ pc = "harness" /\ calls < 2
    /\ calls = 0 \/ PipelineDone
    /\ StartPipeline
    /\ result1' = IF calls = 1 THEN hdr ELSE result1
    /\ UNCHANGED <<reqVars, clientVars, respVars, mapVars, copyVars, connVars, xferVars>>

InitFilter ==
    /\ process = "running"
    /\ method = "GET"
    /\ logged = 1 /\ handler = "handleHTTP"
    /\ pc = "harness"
    /\ hdr \in HeaderMaps(AllKeys, MaxVals) /\ hdr0 = hdr
    /\ NoResponse /\ IdlePipeline /\ NoTunnel

NextFilter == FilterCall \/ Pipeline

SpecFilter == InitFilter /\ [][NextFilter]_vars

\* Every runnable goroutine is eventually scheduled: the handler, the filter
\* goroutines and each transfer goroutine take their next step when one is
\* enabled.  Nothing is assumed of the peers.
TransferStep(t) ==
    \/ TransferBegin(t) \/ TransferRead(t) \/ TransferWrite(t)
    \/ TransferCloseFrom(t) \/ TransferCloseTo(t)

Fairness ==
    /\ WF_vars(LogConnection \/ Dispatch \/ Relay \/ Tunnel)
    /\ WF_vars(Pipeline)
    /\ \A t \in Dirs : WF_vars(TransferStep(t))

FairSpec == Spec /\ Fairness

\* A CONNECT request alone: the dispatcher, handleTunnel, the two transfers
\* and the peers, under the same scheduling.
InitTunnel == Init /\ method = MethodConnect

NextTunnel == LogConnection \/ Dispatch \/ Tunnel \/ Transfers \/ Peers

FairTunnelSpec ==
    /\ InitTunnel /\ [][NextTunnel]_vars
    /\ WF_vars(LogConnection \/ Dispatch \/ Tunnel)
    /\ \A t \in Dirs : WF_vars(TransferStep(t))

(* ----------------------------- properties ----------------------------- *)

\* what the header filter is specified to return for the mapping h
Retained(h) ==
    [k \in {x \in DOMAIN h : ~has(unwantedHeaders, CanonicalHeaderKey(x))} |-> h[k]]

\* the destination's status line was written to the client: a relayed response
Relayed ==
    /\ method # MethodConnect /\ pc \in {"h_body", "done"}
    /\ respStatus # 0 /\ status = respStatus

\* C1: once the pipeline of a filterResponse call has drained, the mapping it
\* returned holds exactly the entries of the input whose canonical key is not
\* denied, each with the value sequence of the input.
C1_FilterExact == (calls = 1 /\ PipelineDone) => hdr = Retained(hdr0)

\* C2: the header mapping written to the client with a relayed response has no
\* Cookie key.
C2_NoCookieRelayed == Relayed => KeyCookie \notin DOMAIN sentHeader

\* C3: whenever the handler is about to read the mapping filterResponse
\* returned (the dump of line 107, the range of copyHeader), every goroutine of
\* the filter has finished and no map assignment is in progress.
C3_FilterCompleteOnReturn ==
    pc \in {"h_dump2", "h_copyHeader"} => (PipelineDone /\ ~writing)

\* C4: filterResponse applied to its own drained result returns a mapping equal
\* to that result.
C4_Idempotent == (calls = 2 /\ PipelineDone) => hdr = result1

\* C5: when the destination's response has no Cookie key, the finished relay
\* gave the client the destination's status, body and header mapping unchanged.
C5_RelayIdentity ==
    (Relayed /\ pc = "done" /\ KeyCookie \notin DOMAIN hdr0)
        => (status = respStatus /\ clientBody = body0 /\ sentHeader = hdr0)

\* the dial of the CONNECT request was made and failed
DialFailed == method = MethodConnect /\ dials = 1 /\ destConn = "none"

\* C6: after a failed dial the client has status 503, the handler has returned,
\* no 200 was written, the connection is not hijacked, no transfer was started
\* and no byte was moved in either direction.
C6_DialFailure ==
    DialFailed =>
        /\ pc = "done" /\ status = StatusServiceUnavailable
        /\ ~hijacked /\ clientConn = "none"
        /\ \A t \in Dirs : tpc[t] = "none" /\ tbuf[t] = <<>> /\ delivered[t] = <<>>

C6_Witness ==
    /\ DialFailed /\ pc = "done" /\ status = StatusServiceUnavailable
    /\ clientBody = <<ErrDial>>

\* the handler returned at line 63: dialled, never hijacked
HijackUnsupported ==
    method = MethodConnect /\ pc = "done" /\ destConn # "none" /\ ~hijacked

\* C7: when the ResponseWriter is no Hijacker the client's status is 500 and no
\* transfer is started.
C7_HijackUnsupported500 ==
    HijackUnsupported =>
        (status = StatusInternalServerError /\ \A t \in Dirs : tpc[t] = "none")

\* C8: once Hijack has returned an error (a nil client connection), the
\* handler aborts: no transfer goroutine is ever started on the connections.
C8_HijackErrorAborts ==
    clientConn = "nil" => (\A t \in Dirs : tpc[t] = "none")

\* C9: no step of the handling of a request ends the process.
C9_ProcessSurvives == process = "running"

\* the tunnel was established: Hijack returned the client connection
Established == hijacked /\ clientConn # "nil"

\* C10: in an established tunnel a transfer that has returned has closed both
\* connections, and once the source of one direction has ended both transfers
\* eventually return.
C10_BothDirectionsFinish ==
    /\ [](\A t \in Dirs : (Established /\ tpc[t] = "done")
                             => (clientConn = "closed" /\ destConn = "closed"))
    /\ (Established /\ \E t \in Dirs : tpc[t] = "closeFrom")
          ~> (\A t \in Dirs : tpc[t] = "done")

C10_Witness ==
    /\ Established /\ \A t \in Dirs : tpc[t] = "done"
    /\ clientConn = "closed" /\ destConn = "closed"
    /\ delivered["c2d"] # <<>> /\ delivered["d2c"] # <<>>

\* a is an initial segment of b
IsPrefix(a, b) == Len(a) <= Len(b) /\ SubSeq(b, 1, Len(a)) = a

\* C11: in an established tunnel, in each direction, what was delivered is at
\* every moment a prefix of what the peer wrote (the client: after it was sent
\* the 200): nothing inserted, dropped, duplicated or reordered.
C11_ByteIntegrity ==
    Established => \A t \in Dirs : IsPrefix(delivered[t], sent[t])

\* the headers http.Error sets, and nothing else
ErrorHeader ==
    HeaderSet(HeaderSet(EmptyHeader, KeyContentType, "text/plain; charset=utf-8"),
              KeyNoSniff, "nosniff")

\* the round trip of a relayed request was made and returned no response
RoundTripFailed == method # MethodConnect /\ roundTrips >= 1 /\ respStatus = 0

\* C12: a request makes at most one round trip; when it failed, the handler has
\* returned, the client has status 503 with the error text as the only body and
\* the plain-text headers of http.Error as the only headers: nothing of the
\* destination.
C12_RoundTripFailure ==
    /\ roundTrips <= 1
    /\ RoundTripFailed =>
          /\ pc = "done" /\ status = StatusServiceUnavailable
          /\ clientBody = <<ErrRoundTrip>> /\ body0 = <<>>
          /\ sentHeader = ErrorHeader /\ calls = 0

C12_Witness ==
    /\ RoundTripFailed /\ roundTrips = 1 /\ pc = "done"
    /\ status = StatusServiceUnavailable /\ clientBody = <<ErrRoundTrip>>

\* the dump of the incoming request failed: its error text was written
DumpFailed == clientBody # <<>> /\ clientBody[1] = ErrDumpRequest

\* C13: when the dump of the request failed, the client has status 500, the
\* handler has returned, and no dial and no round trip was made.
C13_DumpFailure ==
    DumpFailed =>
        /\ pc = "done" /\ status = StatusInternalServerError
        /\ dials = 0 /\ destConn = "none" /\ roundTrips = 0 /\ respStatus = 0

C13_Witness ==
    /\ DumpFailed /\ method = MethodConnect /\ pc = "done"
    /\ status = StatusInternalServerError /\ dials = 0

\* the positions of each handler
TunnelPcs ==
    {"t_dump", "t_dial", "t_writeHeader", "t_hijacker", "t_flush", "t_hijack",
     "t_hijackErr", "t_go1", "t_go2"}

RelayPcs ==
    {"h_dump", "h_roundtrip", "h_dump1", "h_filter", "h_dump2", "h_copyHeader",
     "h_writeHeader", "h_body"}

\* C14: a request is handled by one component, chosen by the method alone:
\* CONNECT by handleTunnel and never by the relay, any other method by the relay
\* and never by handleTunnel; the connection was logged before the branch.
C14_DispatchByMethod ==
    /\ handler = "none" <=> pc \in {"accept", "dispatch"}
    /\ handler # "none" => logged = 1
    /\ handler # "none" => (handler = "handleTunnel" <=> method = MethodConnect)
    /\ pc \in TunnelPcs => handler = "handleTunnel"
    /\ pc \in RelayPcs => handler = "handleHTTP"
    /\ method = MethodConnect => roundTrips = 0 /\ calls = 0 /\ respStatus = 0
    /\ method # MethodConnect =>
          dials = 0 /\ destConn = "none" /\ ~hijacked /\ \A t \in Dirs : tpc[t] = "none"

C14_Witness ==
    /\ pc = "done" /\ logged = 1
    /\ \/ handler = "handleTunnel" /\ method = MethodConnect /\ dials = 1
       \/ handler = "handleHTTP" /\ method # MethodConnect /\ roundTrips = 1

\* C15: on the successful relay path, once the first body byte went to the
\* client, the headers sent are the filtered header mapping: that mapping was
\* complete when it was sent and does not change afterwards.
C15_HeadersFinalBeforeBody ==
    (Relayed /\ clientBody # <<>>) => sentHeader = hdr

\* C16: a byte-copy operation is started only after the dial succeeded, the 200
\* was written and the hijack gave the client's socket, in that order; once the
\* handler has returned from there, both directions were started.
C16_TunnelOrder ==
    /\ (\E t \in Dirs : tpc[t] # "none") =>
          (dials = 1 /\ destConn # "none" /\ status = StatusOK /\ Established)
    /\ (pc = "done" /\ Established) => \A t \in Dirs : tpc[t] # "none"
    /\ hijacked => (status = StatusOK /\ flushed /\ destConn # "none")
    /\ (method = MethodConnect /\ status = StatusOK) => destConn # "none"

\* the source stream of direction t has ended: end-of-stream from the peer, or
\* the error of a source closed on this side
SourceEnded(t) == From(t) = "closed" \/ (pending[t] = <<>> /\ peerEOF[t])

\* some direction runs one of its two deferred Close calls in this step
ClosingStep ==
    \E t \in Dirs : tpc[t] \in {"closeFrom", "closeTo"} /\ tpc'[t] # tpc[t]

\* C17: the destination is dialled at most once; the copy of a direction ends
\* only when its own source stream has ended, and a connection is closed only by
\* the Close calls a direction runs after its copy, one for its source and
\* one for its destination.
C17_CloseAfterSourceEnds ==
    [][/\ dials' <= 1
       /\ \A t \in Dirs :
             (tpc[t] # "closeFrom" /\ tpc'[t] = "closeFrom") => SourceEnded(t)
       /\ (clientConn # "closed" /\ clientConn' = "closed") => ClosingStep
       /\ (destConn # "closed" /\ destConn' = "closed") => ClosingStep]_vars

\* C18: after a call of filterResponse, once its goroutines have finished, the
\* header mapping of the response passed in (the one map both response.Header
\* and filteredRes.Header refer to) is what it was before the call.
C18_InputUnchanged ==
    (calls = 1 /\ PipelineDone) => hdr = hdr0

\* C19: the pipeline of a filterResponse call never stops before its three
\* goroutines have returned and both channels are closed: while one of them
\* has not returned, some goroutine of the pipeline can take a step.
C19_PipelineTerminates ==
    calls >= 1 =>
        \/ PipelineDone /\ headerChClosed /\ outClosed
        \/ ~PipelineDone /\ ENABLED Pipeline

\* C20: once the handling of a CONNECT request is over (the handler has
\* returned and no transfer goroutine is left running), the destination
\* connection is not open.
C20_DestinationClosed ==
    (method = MethodConnect /\ pc = "done" /\ \A t \in Dirs : tpc[t] \in {"none", "done"})
        => destConn # "open"

====
